---- MODULE Spec2Model ----
(***************************************************************************)
(* The browser-side control loop of the morphogen simulation (main.js,     *)
(* agent.js, communication.js, world.js) and the relay between browser and *)
(* brain (proxy.js) as state machines.                                     *)
(*                                                                         *)
(* Real-valued quantities are fixed-point integers in thousandths:         *)
(* 5.0 is 5000, -0.002 is -2, a distance of 0.5 is 500.  An optional       *)
(* JavaScript value (null / undefined or a value) is a sequence of length  *)
(* 0 or 1.  The heading of the body (its quaternion, which angularFactor   *)
(* restricts to rotations about Y) is a number of quarter turns.           *)
(***************************************************************************)
EXTENDS Integers, Sequences, FiniteSets, TLC

VARIABLES
    needsReset,        \* agent.needsReset
    reward,            \* agent.reward
    totalReward,       \* agent.totalReward
    body,              \* agent.body: position, velocity, angularVelocity, force, torque, quaternion
    mesh,              \* agent.mesh: position, quaternion
    lastSensoryData,   \* main.js lastSensoryData (optional snapshot)
    positionHistory,   \* main.js positionHistory
    latestBrainOutput, \* main.js latestBrainOutput
    socket,            \* brainSocket.socket: "null" or the WebSocket's readyState
    lastFrame,         \* the raw frame most recently delivered to socket.onmessage (optional)
    scheduled,         \* an invocation of animate() is pending (line 411 or requestAnimationFrame)
    frames,            \* number of invocations of animate() so far
    pc,                \* where animate() is: "idle" (not running) or "physics" (inside physicsWorld.step)
    lastTick,          \* what the current or most recent invocation of animate() did
    rayHits,           \* what the Raycaster answers for the eight rays, when sense() is taken on its own
    clients,           \* proxy.js browserWSS.clients, in insertion order
    readyState,        \* proxy.js: each browser connection's readyState ("none" before it exists)
    delivered,         \* proxy.js: per browser connection, the numbers of the brain messages passed to client.send
    received,          \* proxy.js: number of messages the for await loop has taken from brainSocket
    forwarder,         \* proxy.js forwardBrainToBrowsers(): "running", "stopped" (its promise rejected) or "exited"
    lastRelay          \* proxy.js: what the most recent forwarding did

browserVars == <<needsReset, reward, totalReward, body, mesh, lastSensoryData,
                 positionHistory, latestBrainOutput, socket, lastFrame,
                 scheduled, frames, pc, lastTick>>

relayVars == <<clients, readyState, delivered, received, forwarder, lastRelay>>

vars == <<browserVars, rayHits, relayVars>>

-----------------------------------------------------------------------------
(* Bounds of the model *)

MaxFrames == 3
MaxContacts == 2
MaxRewardCalls == 1
MaxStillCalls == 103
MaxClients == 2
MaxMessages == 2

-----------------------------------------------------------------------------
(* Values *)

Infinity == 1000000

Vec(x, y, z) == [x |-> x, y |-> y, z |-> z]

Zero3 == Vec(0, 0, 0)

IdentityQuaternion == 0

initialPosition == Vec(0, 3000, 8000)

STAGNATION_FRAMES == 100

NeutralCommand == [left |-> 0, right |-> 0]

\* The body as the Agent constructor builds it.
InitialBody ==
    [position |-> initialPosition, velocity |-> Zero3, angularVelocity |-> Zero3,
     force |-> Zero3, torque |-> Zero3, quaternion |-> IdentityQuaternion]

\* A fresh THREE.Mesh sits at the origin until World.update copies the body's pose.
InitialMesh == [position |-> Zero3, quaternion |-> IdentityQuaternion]

-----------------------------------------------------------------------------
(* Agent.sense *)

\* createVisionSystem: three target rays, then five wall rays (angles in thousandths of a radian).
visionRays ==
    << [angle |-> 0,     type |-> "target"],
       [angle |-> -300,  type |-> "target"],
       [angle |-> 300,   type |-> "target"],
       [angle |-> 0,     type |-> "wall"],
       [angle |-> 785,   type |-> "wall"],
       [angle |-> -785,  type |-> "wall"],
       [angle |-> 1571,  type |-> "wall"],
       [angle |-> -1571, type |-> "wall"] >>

\* SenseRay with closestWallDist overwritten by every wall ray that hits.
SenseRayLastWall(acc, ray, intersects) ==
    IF ray.type = "target"
    THEN IF Len(intersects) > 0
         THEN LET firstHit == intersects[1] IN
              IF ray.angle = 0
              THEN [acc EXCEPT !.sees = firstHit.color, !.distance = firstHit.distance]
              ELSE IF ray.angle < 0
              THEN [acc EXCEPT !.sees_left = firstHit.color,
                               !.distance_left = firstHit.distance]
              ELSE [acc EXCEPT !.sees_right = firstHit.color,
                               !.distance_right = firstHit.distance]
         ELSE acc
    ELSE IF Len(intersects) > 0
         THEN [acc EXCEPT !.sees_wall = TRUE,
                          !.wall_distance = intersects[1].distance]
         ELSE acc

\* One ray's part of the forEach body of sense(): intersects is the Raycaster's
\* answer for that ray, nearest hit first.
SenseRay(acc, ray, intersects) ==
    IF ray.type = "target"
    THEN IF Len(intersects) > 0
         THEN LET firstHit == intersects[1] IN
              IF ray.angle = 0
              THEN [acc EXCEPT !.sees = firstHit.color, !.distance = firstHit.distance]
              ELSE IF ray.angle < 0
              THEN [acc EXCEPT !.sees_left = firstHit.color,
                               !.distance_left = firstHit.distance]
              ELSE [acc EXCEPT !.sees_right = firstHit.color,
                               !.distance_right = firstHit.distance]
         ELSE acc
    ELSE IF Len(intersects) > 0
         THEN [acc EXCEPT !.sees_wall = TRUE,
                          !.wall_distance =
                              IF intersects[1].distance < acc.wall_distance
                              THEN intersects[1].distance ELSE acc.wall_distance]
         ELSE acc

RECURSIVE SenseLoop(_, _, _)
SenseLoop(acc, i, hits) ==
    IF i > Len(visionRays) THEN acc
    ELSE SenseLoop(SenseRay(acc, visionRays[i], hits[i]), i + 1, hits)

\* sense(): the snapshot is taken from the MESH pose and the BODY velocities.
\* wall_distance carries closestWallDist, which starts at Infinity.
sense(m, b, hits) ==
    SenseLoop(
        [sees |-> "null", distance |-> Infinity,
         sees_left |-> "null", distance_left |-> Infinity,
         sees_right |-> "null", distance_right |-> Infinity,
         sees_wall |-> FALSE, wall_distance |-> Infinity,
         position |-> [x |-> m.position.x, z |-> m.position.z],
         orientation |-> m.quaternion,
         velocity |-> [x |-> b.velocity.x, z |-> b.velocity.z],
         angular_velocity |-> b.angularVelocity.y],
        1, hits)

-----------------------------------------------------------------------------
(* calculateReward *)

\* Math.abs left out: the sign is kept.
AbsSigned(n) == n

Abs(n) == IF n < 0 THEN -n ELSE n

\* The front channel's distance only, with no fall-back to the side channels.
SelectedDistanceFrontOnly(sd) == sd.distance

\* The distance the "getting closer" test reads off a snapshot.
SelectedDistance(sd) ==
    IF sd.distance # Infinity THEN sd.distance
    ELSE IF sd.distance_left # Infinity THEN sd.distance_left
    ELSE sd.distance_right

\* calculateReward without lines 278-279: the window is kept, no penalty is taken.
calculateRewardNoStagnation(sd, last, history) ==
    IF last = <<>> THEN [reward |-> 0, history |-> history]
    ELSE
    LET isSeeingRed  == sd.sees = "red" \/ sd.sees_left = "red" \/ sd.sees_right = "red"
        isSeeingBlue == sd.sees = "blue" \/ sd.sees_left = "blue" \/ sd.sees_right = "blue"
        isMoving  == sd.velocity.x * sd.velocity.x + sd.velocity.z * sd.velocity.z > 100 * 100
        isTurning == Abs(sd.angular_velocity) > 200
        target ==
            IF isSeeingRed
            THEN 10 + (IF SelectedDistance(sd) < SelectedDistance(last[1]) THEN 200 ELSE 0)
            ELSE IF isSeeingBlue THEN -100
            ELSE (IF isTurning THEN 100 ELSE 0)
                 + (IF isMoving /\ ~isTurning THEN -200 ELSE 0)
        wall == IF sd.sees_wall /\ sd.wall_distance < 1000 THEN -500 ELSE 0
        pushed == Append(history, [x |-> sd.position.x, z |-> sd.position.z])
        over == Len(pushed) > STAGNATION_FRAMES
        window == IF over THEN Tail(pushed) ELSE pushed
        firstPos == window[1]
        lastPos == window[Len(window)]
        dx == lastPos.x - firstPos.x
        dz == lastPos.z - firstPos.z
        stagnation == 0
    IN  [reward |-> -2 + target + wall + stagnation, history |-> window]

\* calculateReward with the exploration terms applied in the blue branch too.
calculateRewardBlueExplores(sd, last, history) ==
    IF last = <<>> THEN [reward |-> 0, history |-> history]
    ELSE
    LET isSeeingRed  == sd.sees = "red" \/ sd.sees_left = "red" \/ sd.sees_right = "red"
        isSeeingBlue == sd.sees = "blue" \/ sd.sees_left = "blue" \/ sd.sees_right = "blue"
        isMoving  == sd.velocity.x * sd.velocity.x + sd.velocity.z * sd.velocity.z > 100 * 100
        isTurning == Abs(sd.angular_velocity) > 200
        target ==
            IF isSeeingRed
            THEN 10 + (IF SelectedDistance(sd) < SelectedDistance(last[1]) THEN 200 ELSE 0)
            ELSE IF isSeeingBlue
            THEN -100 + (IF isTurning THEN 100 ELSE 0)
            ELSE (IF isTurning THEN 100 ELSE 0)
                 + (IF isMoving /\ ~isTurning THEN -200 ELSE 0)
        wall == IF sd.sees_wall /\ sd.wall_distance < 1000 THEN -500 ELSE 0
        pushed == Append(history, [x |-> sd.position.x, z |-> sd.position.z])
        over == Len(pushed) > STAGNATION_FRAMES
        window == IF over THEN Tail(pushed) ELSE pushed
        firstPos == window[1]
        lastPos == window[Len(window)]
        dx == lastPos.x - firstPos.x
        dz == lastPos.z - firstPos.z
        stagnation == IF over /\ dx * dx + dz * dz < 500 * 500 THEN -10 ELSE 0
    IN  [reward |-> -2 + target + wall + stagnation, history |-> window]

\* calculateReward with <= in place of < at line 268.
calculateRewardWallInclusive(sd, last, history) ==
    IF last = <<>> THEN [reward |-> 0, history |-> history]
    ELSE
    LET isSeeingRed  == sd.sees = "red" \/ sd.sees_left = "red" \/ sd.sees_right = "red"
        isSeeingBlue == sd.sees = "blue" \/ sd.sees_left = "blue" \/ sd.sees_right = "blue"
        isMoving  == sd.velocity.x * sd.velocity.x + sd.velocity.z * sd.velocity.z > 100 * 100
        isTurning == Abs(sd.angular_velocity) > 200
        target ==
            IF isSeeingRed
            THEN 10 + (IF SelectedDistance(sd) < SelectedDistance(last[1]) THEN 200 ELSE 0)
            ELSE IF isSeeingBlue THEN -100
            ELSE (IF isTurning THEN 100 ELSE 0)
                 + (IF isMoving /\ ~isTurning THEN -200 ELSE 0)
        wall == IF sd.sees_wall /\ sd.wall_distance <= 1000 THEN -500 ELSE 0
        pushed == Append(history, [x |-> sd.position.x, z |-> sd.position.z])
        over == Len(pushed) > STAGNATION_FRAMES
        window == IF over THEN Tail(pushed) ELSE pushed
        firstPos == window[1]
        lastPos == window[Len(window)]
        dx == lastPos.x - firstPos.x
        dz == lastPos.z - firstPos.z
        stagnation == IF over /\ dx * dx + dz * dz < 500 * 500 THEN -10 ELSE 0
    IN  [reward |-> -2 + target + wall + stagnation, history |-> window]

\* calculateReward with the window cleared down to the newest position when it
\* overflows, instead of shifted.
calculateRewardResetsWindow(sd, last, history) ==
    IF last = <<>> THEN [reward |-> 0, history |-> history]
    ELSE
    LET isSeeingRed  == sd.sees = "red" \/ sd.sees_left = "red" \/ sd.sees_right = "red"
        isSeeingBlue == sd.sees = "blue" \/ sd.sees_left = "blue" \/ sd.sees_right = "blue"
        isMoving  == sd.velocity.x * sd.velocity.x + sd.velocity.z * sd.velocity.z > 100 * 100
        isTurning == Abs(sd.angular_velocity) > 200
        target ==
            IF isSeeingRed
            THEN 10 + (IF SelectedDistance(sd) < SelectedDistance(last[1]) THEN 200 ELSE 0)
            ELSE IF isSeeingBlue THEN -100
            ELSE (IF isTurning THEN 100 ELSE 0)
                 + (IF isMoving /\ ~isTurning THEN -200 ELSE 0)
        wall == IF sd.sees_wall /\ sd.wall_distance < 1000 THEN -500 ELSE 0
        pushed == Append(history, [x |-> sd.position.x, z |-> sd.position.z])
        over == Len(pushed) > STAGNATION_FRAMES
        window == IF over THEN << pushed[Len(pushed)] >> ELSE pushed
        firstPos == window[1]
        lastPos == window[Len(window)]
        dx == lastPos.x - firstPos.x
        dz == lastPos.z - firstPos.z
        stagnation == IF over /\ dx * dx + dz * dz < 500 * 500 THEN -10 ELSE 0
    IN  [reward |-> -2 + target + wall + stagnation, history |-> window]

\* calculateReward(sensoryData, lastSensoryData): the value returned and the
\* stagnation window it leaves.  last is the optional previous snapshot.
calculateReward(sd, last, history) ==
    IF last = <<>> THEN [reward |-> 0, history |-> history]
    ELSE
    LET isSeeingRed  == sd.sees = "red" \/ sd.sees_left = "red" \/ sd.sees_right = "red"
        isSeeingBlue == sd.sees = "blue" \/ sd.sees_left = "blue" \/ sd.sees_right = "blue"
        isMoving  == sd.velocity.x * sd.velocity.x + sd.velocity.z * sd.velocity.z > 100 * 100
        isTurning == Abs(sd.angular_velocity) > 200
        target ==
            IF isSeeingRed
            THEN 10 + (IF SelectedDistance(sd) < SelectedDistance(last[1]) THEN 200 ELSE 0)
            ELSE IF isSeeingBlue THEN -100
            ELSE (IF isTurning THEN 100 ELSE 0)
                 + (IF isMoving /\ ~isTurning THEN -200 ELSE 0)
        wall == IF sd.sees_wall /\ sd.wall_distance < 1000 THEN -500 ELSE 0
        pushed == Append(history, [x |-> sd.position.x, z |-> sd.position.z])
        over == Len(pushed) > STAGNATION_FRAMES
        window == IF over THEN Tail(pushed) ELSE pushed
        firstPos == window[1]
        lastPos == window[Len(window)]
        dx == lastPos.x - firstPos.x
        dz == lastPos.z - firstPos.z
        stagnation == IF over /\ dx * dx + dz * dz < 500 * 500 THEN -10 ELSE 0
    IN  [reward |-> -2 + target + wall + stagnation, history |-> window]

-----------------------------------------------------------------------------
(* Agent.checkAndResetReward, Agent.act, Agent.resetPosition *)

\* checkAndResetReward() without line 243: agent.reward is not cleared.
checkAndResetRewardKeeps(r, total) == [reward |-> r, totalReward |-> total + r]

\* checkAndResetReward(): moves agent.reward into agent.totalReward.
checkAndResetReward(r, total) == [reward |-> 0, totalReward |-> total + r]

\* The forward vector (0, 0, -1) turned by q quarter turns about Y.
Forward(q) ==
    CASE q % 4 = 0 -> [x |-> 0,  z |-> -1]
      [] q % 4 = 1 -> [x |-> -1, z |-> 0]
      [] q % 4 = 2 -> [x |-> 0,  z |-> 1]
      [] q % 4 = 3 -> [x |-> 1,  z |-> 0]

\* act(commands): force and torque are set only above the 0.1 thresholds.
act(b, m, commands) ==
    LET forwardForce == (commands.left + commands.right) * 75
        turningTorque == (commands.left - commands.right) * 50
        f == Forward(m.quaternion)
        b1 == IF Abs(forwardForce) > 100
              THEN [b EXCEPT !.force = Vec(f.x * forwardForce, 0, f.z * forwardForce)]
              ELSE b
    IN  IF Abs(turningTorque) > 100
        THEN [b1 EXCEPT !.torque = Vec(0, turningTorque, 0)]
        ELSE b1

\* resetPosition() without line 83: the heading is left as it was.
resetPositionKeepsHeading(b) ==
    [b EXCEPT !.position = initialPosition, !.velocity = Zero3,
              !.angularVelocity = Zero3]

\* resetPosition(): pose back to the initial pose, velocities zeroed.
resetPosition(b) ==
    [b EXCEPT !.position = initialPosition, !.velocity = Zero3,
              !.angularVelocity = Zero3, !.quaternion = IdentityQuaternion]

-----------------------------------------------------------------------------
(* The collide listener of main.js *)

\* The listener with += in place of = : the fixed reward is added.
collideAdds(a, id) ==
    IF id = "button_red" THEN [reward |-> a.reward + 5000, needsReset |-> TRUE]
    ELSE IF id = "button_blue" THEN [reward |-> a.reward - 1000, needsReset |-> TRUE]
    ELSE IF id = "wall" THEN [reward |-> a.reward - 2000, needsReset |-> TRUE]
    ELSE a

\* The listener with a final else that resets on any other body.
collideAnyBody(a, id) ==
    IF id = "button_red" THEN [reward |-> 5000, needsReset |-> TRUE]
    ELSE IF id = "button_blue" THEN [reward |-> -1000, needsReset |-> TRUE]
    ELSE IF id = "wall" THEN [reward |-> -2000, needsReset |-> TRUE]
    ELSE [reward |-> a.reward, needsReset |-> TRUE]

\* The listener guarded by !agent.needsReset: the first collision wins.
collideFirstWins(a, id) ==
    IF a.needsReset THEN a
    ELSE IF id = "button_red" THEN [reward |-> 5000, needsReset |-> TRUE]
    ELSE IF id = "button_blue" THEN [reward |-> -1000, needsReset |-> TRUE]
    ELSE IF id = "wall" THEN [reward |-> -2000, needsReset |-> TRUE]
    ELSE a

\* One collide event; id is event.body.userData?.id ("undefined" when the
\* contacted body carries no userData, as the floor).
collide(a, id) ==
    IF id = "button_red" THEN [reward |-> 5000, needsReset |-> TRUE]
    ELSE IF id = "button_blue" THEN [reward |-> -1000, needsReset |-> TRUE]
    ELSE IF id = "wall" THEN [reward |-> -2000, needsReset |-> TRUE]
    ELSE a

-----------------------------------------------------------------------------
(* BrainSocket *)

\* JSON.stringify of the per-tick payload: JSON has no Infinity, it is written null.
JSONnumber(n) == IF n = Infinity THEN <<>> ELSE <<n>>

JSONstringify(data) ==
    [senses |-> [data.senses EXCEPT
                    !.distance = JSONnumber(@),
                    !.distance_left = JSONnumber(@),
                    !.distance_right = JSONnumber(@),
                    !.wall_distance = JSONnumber(@)],
     reward |-> data.reward]

\* send() testing only that a socket exists, not that it is open.
BrainSocketSendUnchecked(sock, data) ==
    IF sock # "null" THEN <<JSONstringify(data)>> ELSE <<>>

\* send() handing the frame to the WebSocket twice.
BrainSocketSendTwice(sock, data) ==
    IF sock # "null" /\ sock = "OPEN"
    THEN <<JSONstringify(data), JSONstringify(data)>> ELSE <<>>

\* BrainSocket.send(data): the frames the call hands to WebSocket.send.
BrainSocketSend(sock, data) ==
    IF sock # "null" /\ sock = "OPEN" THEN <<JSONstringify(data)>> ELSE <<>>

\* The frames the peer may deliver.
RawGarbage == "not json"
RawNull == "null"
RawStats == "{\"network_size\":3}"
RawForward == "{\"motor_commands\":{\"left\":1,\"right\":1}}"
RawTurn == "{\"motor_commands\":{\"left\":1,\"right\":0}}"

RawFrames == {RawGarbage, RawNull, RawStats, RawForward, RawTurn}

\* JSON.parse: ok is FALSE when it throws; value is the optional parsed value
\* (empty for JSON null, which is falsy).  An object is kept by the two fields
\* the program reads, each optional.
JSONparse(raw) ==
    CASE raw = RawNull    -> [ok |-> TRUE, value |-> <<>>]
      [] raw = RawStats   -> [ok |-> TRUE,
                              value |-> <<[motor_commands |-> <<>>, network_size |-> <<3>>]>>]
      [] raw = RawForward -> [ok |-> TRUE,
                              value |-> <<[motor_commands |-> <<[left |-> 1000, right |-> 1000]>>,
                                          network_size |-> <<>>]>>]
      [] raw = RawTurn    -> [ok |-> TRUE,
                              value |-> <<[motor_commands |-> <<[left |-> 1000, right |-> 0]>>,
                                          network_size |-> <<>>]>>]
      [] OTHER            -> [ok |-> FALSE, value |-> <<>>]

\* The callback keeping the first output that carries motor commands.
onBrainDataKeepFirst(current, brainData) ==
    IF brainData # <<>> /\ current.motor_commands = <<>> THEN brainData[1] ELSE current

\* The callback main.js passes to brainSocket.connect.
onBrainData(current, brainData) ==
    IF brainData # <<>> THEN brainData[1] ELSE current

\* socket.onmessage: parse, hand to the callback, swallow a parse error.
onmessage(current, raw) ==
    LET data == JSONparse(raw) IN
    IF data.ok THEN onBrainData(current, data.value) ELSE current

\* latestBrainOutput.motor_commands || {left: 0, right: 0}
CommandOf(output) ==
    IF output.motor_commands # <<>> THEN output.motor_commands[1] ELSE NeutralCommand


-----------------------------------------------------------------------------
(* World.update: the physics step, then the copy of each body's pose to its mesh *)

\* The ids the collide listener can meet: the two buttons, a wall, the floor
\* (no userData) and a tag the listener does not know.
ContactIds == {"button_red", "button_blue", "wall", "undefined", "agent"}

\* Where the integrator may leave the body (cannon-es is an external
\* collaborator): at rest on the floor below the start, or moving and turning
\* in front of the red button.
Motions ==
    { [position |-> Vec(0, 500, 8000), velocity |-> Zero3,
       angularVelocity |-> Zero3, quaternion |-> 0],
      [position |-> Vec(-10000, 500, 3000), velocity |-> Vec(0, 0, -300),
       angularVelocity |-> Vec(0, 500, 0), quaternion |-> 1] }

\* physicsWorld.step(1/60, deltaTime, 3) once its sub-steps are over: the body
\* is integrated and its force and torque are cleared.
physicsStep(b, motion) ==
    [position |-> motion.position, velocity |-> motion.velocity,
     angularVelocity |-> motion.angularVelocity,
     force |-> Zero3, torque |-> Zero3, quaternion |-> motion.quaternion]

\* The loop over objectsToUpdate, for the agent's entry.
syncMesh(m, b) == [position |-> b.position, quaternion |-> b.quaternion]

-----------------------------------------------------------------------------
(* What the Raycaster answers for the eight rays *)

NoHits == [i \in 1..8 |-> <<>>]

\* The static scene of World.createEnvironment seen from pose m (three.js is an
\* external collaborator): in front of the red button the front ray meets it
\* at 2.75 and the side whisker meets the west wall at 4.75; elsewhere the two
\* side whiskers meet the east and west walls at 14.75.
Raycast(m) ==
    IF m.position.x = -10000
    THEN [NoHits EXCEPT ![1] = << [color |-> "red", distance |-> 2750] >>,
                        ![7] = << [color |-> "undefined", distance |-> 4750] >>]
    ELSE [NoHits EXCEPT ![7] = << [color |-> "undefined", distance |-> 14750] >>,
                        ![8] = << [color |-> "undefined", distance |-> 14750] >>]

-----------------------------------------------------------------------------
(* animate *)

NoTick ==
    [kind |-> "none", prev |-> "none", stage |-> "none", readyState |-> "null",
     rewardBefore |-> 0, needsResetBefore |-> FALSE,
     senses |-> <<>>, continuous |-> <<>>, sends |-> <<>>, wire |-> <<>>, acts |-> <<>>,
     stepped |-> FALSE, contacts |-> 0, last |-> <<>>, pendingBefore |-> FALSE]

\* proxy.js before any connection: no browser client, the forwarder started
\* by the call at line 46.
NoRelay ==
    [kind |-> "none", n |-> 0, message |-> <<>>, from |-> 0,
     sends |-> <<>>, threw |-> <<>>, upstream |-> <<>>]

RelayStart ==
    /\ clients = <<>>
    /\ readyState = [c \in 1..MaxClients |-> "none"]
    /\ delivered = [c \in 1..MaxClients |-> <<>>]
    /\ received = 0
    /\ forwarder = "running"
    /\ lastRelay = NoRelay

Init ==
    /\ needsReset = FALSE
    /\ reward = 0
    /\ totalReward = 0
    /\ body = InitialBody
    /\ mesh = InitialMesh
    /\ lastSensoryData = <<>>
    /\ positionHistory = <<>>
    /\ latestBrainOutput = [motor_commands |-> <<>>, network_size |-> <<>>]
    /\ socket = "null"
    /\ lastFrame = <<>>
    /\ scheduled = FALSE
    /\ frames = 0
    /\ pc = "idle"
    /\ lastTick = NoTick
    /\ rayHits = NoHits
    /\ RelayStart

\* The top level of main.js: brainSocket.connect(callback) creates the WebSocket,
\* and the last statement calls animate() for the first time.
connect ==
    /\ socket = "null"
    /\ socket' = "CONNECTING"
    /\ scheduled' = TRUE
    /\ UNCHANGED <<rayHits, relayVars, needsReset, reward, totalReward, body, mesh, lastSensoryData,
                   positionHistory, latestBrainOutput, lastFrame, frames, pc, lastTick>>

\* animate() is entered: the browser runs the pending callback.
Entered == scheduled /\ pc = "idle" /\ frames < MaxFrames

\* The dead frame without agent.needsReset = false.
AnimateDeadKeepsFlag ==
    /\ Entered
    /\ needsReset
    /\ scheduled' = TRUE
    /\ body' = resetPosition([body EXCEPT !.velocity = Zero3, !.angularVelocity = Zero3,
                                          !.force = Zero3, !.torque = Zero3])
    /\ needsReset' = needsReset
    /\ frames' = frames + 1
    /\ lastTick' = [NoTick EXCEPT !.kind = "dead", !.prev = lastTick.kind,
                                  !.readyState = socket, !.rewardBefore = reward,
                                  !.needsResetBefore = needsReset]
    /\ UNCHANGED <<rayHits, relayVars, reward, totalReward, mesh, lastSensoryData, positionHistory,
                   latestBrainOutput, socket, lastFrame, pc>>

\* The dead frame with the previous snapshot dropped as well.
AnimateDeadForgets ==
    /\ Entered
    /\ needsReset
    /\ scheduled' = TRUE
    /\ body' = resetPosition([body EXCEPT !.velocity = Zero3, !.angularVelocity = Zero3,
                                          !.force = Zero3, !.torque = Zero3])
    /\ needsReset' = FALSE
    /\ frames' = frames + 1
    /\ lastTick' = [NoTick EXCEPT !.kind = "dead", !.prev = lastTick.kind,
                                  !.readyState = socket, !.rewardBefore = reward,
                                  !.needsResetBefore = needsReset]
    /\ lastSensoryData' = <<>>
    /\ UNCHANGED <<rayHits, relayVars, reward, totalReward, mesh, positionHistory,
                   latestBrainOutput, socket, lastFrame, pc>>

\* animate() with agent.needsReset set: the deferred reset, and nothing else.
AnimateDead ==
    /\ Entered
    /\ needsReset
    /\ scheduled' = TRUE
    /\ body' = resetPosition([body EXCEPT !.velocity = Zero3, !.angularVelocity = Zero3,
                                          !.force = Zero3, !.torque = Zero3])
    /\ needsReset' = FALSE
    /\ frames' = frames + 1
    /\ lastTick' = [NoTick EXCEPT !.kind = "dead", !.prev = lastTick.kind,
                                  !.readyState = socket, !.rewardBefore = reward,
                                  !.needsResetBefore = needsReset]
    /\ UNCHANGED <<rayHits, relayVars, reward, totalReward, mesh, lastSensoryData, positionHistory,
                   latestBrainOutput, socket, lastFrame, pc>>

\* The statement of the try block that throws ("none": none has thrown).
Stages == <<"sense", "reward", "send", "act", "physics", "render", "none">>

StageNo(stage) == CHOOSE i \in 1..Len(Stages) : Stages[i] = stage

\* The statement numbered k ran to completion in a tick that throws at stage.
Done(k, stage) == StageNo(stage) > k

\* The try block of animate() from its start up to the call of world.update,
\* or up to the statement that throws (stage).  The catch block only logs.
TickBody(stage) ==
    LET drained     == checkAndResetReward(reward, totalReward)
        sensoryData == sense(mesh, body, Raycast(mesh))
        cr          == calculateReward(sensoryData, lastSensoryData, positionHistory)
        reward1     == IF Done(2, stage) THEN drained.reward + cr.reward ELSE drained.reward
        data        == [senses |-> sensoryData, reward |-> reward1]
        command     == CommandOf(latestBrainOutput)
    IN
    /\ scheduled' = TRUE
    /\ frames' = frames + 1
    /\ totalReward' = drained.totalReward
    /\ reward' = reward1
    /\ positionHistory' = IF Done(2, stage) THEN cr.history ELSE positionHistory
    /\ body' = IF Done(4, stage) THEN act(body, mesh, command) ELSE body
    /\ pc' = IF Done(4, stage) THEN "physics" ELSE "idle"
    /\ lastTick' =
         [NoTick EXCEPT
            !.kind = IF Done(4, stage) THEN "running" ELSE "fault",
            !.prev = lastTick.kind,
            !.stage = stage,
            !.readyState = socket,
            !.rewardBefore = reward,
            !.needsResetBefore = needsReset,
            !.senses = IF Done(1, stage) THEN <<sensoryData>> ELSE <<>>,
            !.continuous = IF Done(2, stage) THEN <<cr.reward>> ELSE <<>>,
            !.sends = IF Done(3, stage) THEN <<data>> ELSE <<>>,
            !.wire = IF Done(3, stage) THEN BrainSocketSend(socket, data) ELSE <<>>,
            !.acts = IF Done(4, stage) THEN <<command>> ELSE <<>>,
            !.stepped = Done(4, stage)]
    /\ UNCHANGED <<rayHits, relayVars, needsReset, mesh, lastSensoryData, latestBrainOutput, socket, lastFrame>>

\* animate() with agent.needsReset clear, up to the physics step.
AnimateTick ==
    /\ Entered
    /\ ~needsReset
    /\ TickBody("none")

\* animate() with agent.needsReset clear, when a statement before the physics
\* step throws.
AnimateFault ==
    /\ Entered
    /\ ~needsReset
    /\ \E stage \in {"sense", "reward", "send", "act"} : TickBody(stage)

\* The physics step dispatches a collide event on the agent's body.
Collide ==
    /\ pc = "physics"
    /\ lastTick.contacts < MaxContacts
    /\ \E id \in ContactIds :
         LET a == collide([reward |-> reward, needsReset |-> needsReset], id) IN
         /\ reward' = a.reward
         /\ needsReset' = a.needsReset
         /\ lastTick' = [lastTick EXCEPT !.contacts = @ + 1, !.last = <<id>>,
                                         !.pendingBefore = needsReset]
    /\ UNCHANGED <<rayHits, relayVars, totalReward, body, mesh, lastSensoryData, positionHistory,
                   latestBrainOutput, socket, lastFrame, scheduled, frames, pc>>

\* The throw with requestAnimationFrame(animate) placed after the try block's
\* work instead of first: nothing is scheduled.
PhysicsThrowStops ==
    /\ pc = "physics"
    /\ pc' = "idle"
    /\ scheduled' = FALSE
    /\ lastTick' = [lastTick EXCEPT !.kind = "fault", !.stage = "physics",
                                    !.contacts = 0, !.last = <<>>, !.pendingBefore = FALSE]
    /\ UNCHANGED <<rayHits, relayVars, needsReset, reward, totalReward, body, mesh, lastSensoryData,
                   positionHistory, latestBrainOutput, socket, lastFrame, frames>>

\* world.update throws inside the physics step; the catch block logs.
PhysicsThrow ==
    /\ pc = "physics"
    /\ pc' = "idle"
    /\ lastTick' = [lastTick EXCEPT !.kind = "fault", !.stage = "physics",
                                    !.contacts = 0, !.last = <<>>, !.pendingBefore = FALSE]
    /\ UNCHANGED <<rayHits, relayVars, needsReset, reward, totalReward, body, mesh, lastSensoryData,
                   positionHistory, latestBrainOutput, socket, lastFrame, scheduled, frames>>

\* The physics step returns and the rest of the try block runs: the mesh takes
\* the body's pose, the scene is drawn, the snapshot is kept for the next
\* frame; or a statement after the step (stage "render") throws.
\* ran is FALSE when no sub-step was due: nothing moved and nothing collided.
StepReturn ==
    /\ pc = "physics"
    /\ \E ran \in BOOLEAN, motion \in Motions, stage \in {"render", "none"} :
         /\ ran \/ lastTick.contacts = 0
         /\ body' = IF ran THEN physicsStep(body, motion) ELSE body
         /\ mesh' = syncMesh(mesh, body')
         /\ lastSensoryData' = IF stage = "none" THEN lastTick.senses ELSE lastSensoryData
         /\ lastTick' = [lastTick EXCEPT !.kind = IF stage = "none" THEN "tick" ELSE "fault",
                                         !.stage = stage,
                                         !.contacts = 0, !.last = <<>>, !.pendingBefore = FALSE]
    /\ pc' = "idle"
    /\ UNCHANGED <<rayHits, relayVars, needsReset, reward, totalReward, positionHistory, latestBrainOutput,
                   socket, lastFrame, scheduled, frames>>

-----------------------------------------------------------------------------
(* The WebSocket's events; none runs while animate() is running *)

\* onopen: the handler logs; the browser has moved readyState to OPEN.
onopen ==
    /\ pc = "idle"
    /\ frames > 0
    /\ socket = "CONNECTING"
    /\ socket' = "OPEN"
    /\ UNCHANGED <<rayHits, relayVars, needsReset, reward, totalReward, body, mesh, lastSensoryData,
                   positionHistory, latestBrainOutput, lastFrame, scheduled,
                   frames, pc, lastTick>>

\* The closing handshake starts (readyState CLOSING); no handler runs.
closing ==
    /\ pc = "idle"
    /\ socket = "OPEN"
    /\ socket' = "CLOSING"
    /\ UNCHANGED <<rayHits, relayVars, needsReset, reward, totalReward, body, mesh, lastSensoryData,
                   positionHistory, latestBrainOutput, lastFrame, scheduled,
                   frames, pc, lastTick>>

\* onclose: the handler logs; the connection failed or ended.  Nothing reconnects.
onclose ==
    /\ pc = "idle"
    /\ frames > 0
    /\ socket \in {"CONNECTING", "OPEN", "CLOSING"}
    /\ socket' = "CLOSED"
    /\ UNCHANGED <<rayHits, relayVars, needsReset, reward, totalReward, body, mesh, lastSensoryData,
                   positionHistory, latestBrainOutput, lastFrame, scheduled,
                   frames, pc, lastTick>>

\* A frame arrives on the open socket and socket.onmessage runs.
OnMessage ==
    /\ pc = "idle"
    /\ socket = "OPEN"
    /\ \E raw \in RawFrames :
         /\ lastFrame' = <<raw>>
         /\ latestBrainOutput' = onmessage(latestBrainOutput, raw)
    /\ UNCHANGED <<rayHits, relayVars, needsReset, reward, totalReward, body, mesh, lastSensoryData,
                   positionHistory, socket, scheduled, frames, pc, lastTick>>

Next ==
    \/ connect
    \/ AnimateDead
    \/ AnimateTick
    \/ AnimateFault
    \/ Collide
    \/ PhysicsThrow
    \/ StepReturn
    \/ onopen
    \/ closing
    \/ onclose
    \/ OnMessage

Spec == Init /\ [][Next]_vars

\* The frame loop on its own: animate() and the physics step read nothing the
\* socket events write except latestBrainOutput, and whether a frame is
\* requested never depends on it.
LoopNext ==
    \/ connect
    \/ AnimateDead
    \/ AnimateTick
    \/ AnimateFault
    \/ Collide
    \/ PhysicsThrow
    \/ StepReturn

\* The browser evaluates the module, runs every requested animation frame, and
\* the physics step returns or throws.
FairSpec ==
    /\ Init
    /\ [][LoopNext]_vars
    /\ WF_vars(connect)
    /\ WF_vars(AnimateDead \/ AnimateTick \/ AnimateFault)
    /\ WF_vars(StepReturn \/ PhysicsThrow)

-----------------------------------------------------------------------------
(* calculateReward on its own: the snapshots it may be given, call after call *)

\* What the Raycaster may answer on the front, left and right target rays and
\* on the front wall ray.
FrontHits ==
    { <<>>, << [color |-> "red", distance |-> 4000] >>,
      << [color |-> "red", distance |-> 5000] >>,
      << [color |-> "blue", distance |-> 4000] >> }

LeftHits ==
    { <<>>, << [color |-> "red", distance |-> 3000] >>,
      << [color |-> "blue", distance |-> 6000] >> }

RightHits ==
    { <<>>, << [color |-> "red", distance |-> 6000] >>,
      << [color |-> "blue", distance |-> 3000] >> }

WallHits ==
    { <<>>, << [color |-> "undefined", distance |-> 500] >>,
      << [color |-> "undefined", distance |-> 1000] >> }

RewardHits ==
    { [NoHits EXCEPT ![1] = f, ![2] = l, ![3] = r, ![4] = w] :
        f \in FrontHits, l \in LeftHits, r \in RightHits, w \in WallHits }

\* The body's velocities when sense() reads them: planar speed 0, 0.1 or 0.3,
\* angular velocity 0, 0.2 or -0.5.
RewardBodies ==
    { [InitialBody EXCEPT !.velocity = Vec(0, 0, v), !.angularVelocity = Vec(0, w, 0)] :
        v \in {0, -100, -300}, w \in {0, 200, -500} }

\* The snapshots sense() returns for them, the mesh being at the start.
Snapshots ==
    { sense([position |-> initialPosition, quaternion |-> IdentityQuaternion], b, h) :
        b \in RewardBodies, h \in RewardHits }

\* The places a resting agent is sensed at: the second within 0.5 of the
\* first, the third beyond it.
StillPositions == << Vec(0, 500, 8000), Vec(300, 500, 8000), Vec(5000, 500, 8000) >>

\* The snapshot of an agent at rest at StillPositions[i] that sees nothing.
StillSnapshot(i) ==
    sense([position |-> StillPositions[i], quaternion |-> IdentityQuaternion],
          InitialBody, NoHits)

\* Which of StillPositions a snapshot was taken at.
StillIndex(sd) ==
    CHOOSE i \in 1..Len(StillPositions) :
        StillPositions[i].x = sd.position.x /\ StillPositions[i].z = sd.position.z

\* The two statements of animate() that concern calculateReward: the call
\* with the new snapshot, and lastSensoryData = sensoryData.
RewardCall(sd) ==
    LET cr == calculateReward(sd, lastSensoryData, positionHistory) IN
    /\ positionHistory' = cr.history
    /\ lastSensoryData' = <<sd>>
    /\ frames' = frames + 1
    /\ lastTick' = [NoTick EXCEPT !.kind = "call", !.prev = lastTick.kind,
                                  !.senses = <<sd>>, !.continuous = <<cr.reward>>]
    /\ UNCHANGED <<rayHits, relayVars, needsReset, reward, totalReward, body, mesh, latestBrainOutput,
                   socket, lastFrame, scheduled, pc>>

\* Before the first call: no snapshot yet, or one from an earlier frame.
RewardStart ==
    /\ needsReset = FALSE
    /\ reward = 0
    /\ totalReward = 0
    /\ body = InitialBody
    /\ mesh = InitialMesh
    /\ lastSensoryData \in {<<>>} \cup { <<s>> : s \in Snapshots }
    /\ positionHistory = <<>>
    /\ latestBrainOutput = [motor_commands |-> <<>>, network_size |-> <<>>]
    /\ socket = "null"
    /\ lastFrame = <<>>
    /\ scheduled = FALSE
    /\ frames = 0
    /\ pc = "idle"
    /\ lastTick = NoTick
    /\ rayHits = NoHits
    /\ RelayStart

\* calculateReward is called with any snapshot.
AnyCall ==
    /\ frames < MaxRewardCalls
    /\ \E sd \in Snapshots : RewardCall(sd)

RewardSpec == RewardStart /\ [][AnyCall]_vars

\* A resting agent that has been sensed before, with an empty window.
StillStart ==
    /\ needsReset = FALSE
    /\ reward = 0
    /\ totalReward = 0
    /\ body = InitialBody
    /\ mesh = InitialMesh
    /\ lastSensoryData = << StillSnapshot(1) >>
    /\ positionHistory = <<>>
    /\ latestBrainOutput = [motor_commands |-> <<>>, network_size |-> <<>>]
    /\ socket = "null"
    /\ lastFrame = <<>>
    /\ scheduled = FALSE
    /\ frames = 0
    /\ pc = "idle"
    /\ lastTick = NoTick
    /\ rayHits = NoHits
    /\ RelayStart

\* calculateReward is called with the agent where it was.
StillCall ==
    /\ frames < MaxStillCalls
    /\ RewardCall(StillSnapshot(StillIndex(lastSensoryData[1])))

\* calculateReward is called with the agent at the next place.
MovedCall ==
    /\ frames < MaxStillCalls
    /\ StillIndex(lastSensoryData[1]) < Len(StillPositions)
    /\ RewardCall(StillSnapshot(StillIndex(lastSensoryData[1]) + 1))

StillNext == StillCall \/ MovedCall

StillSpec == StillStart /\ [][StillNext]_vars

-----------------------------------------------------------------------------
(* Agent.sense on its own: whatever the Raycaster answers for the eight rays *)

\* intersectObjects(world.buttons) for one target ray, nearest hit first:
\* nothing, the red button, or the blue button with the red one behind it.
TargetRayHits ==
    { <<>>, << [color |-> "red", distance |-> 2750] >>,
      << [color |-> "blue", distance |-> 5000], [color |-> "red", distance |-> 9000] >> }

\* intersectObjects(world.walls) for one wall ray, nearest hit first: nothing,
\* one wall, or a near wall with a far one behind it.
WallRayHits ==
    { <<>>, << [color |-> "undefined", distance |-> 4750] >>,
      << [color |-> "undefined", distance |-> 1500],
         [color |-> "undefined", distance |-> 14750] >> }

SenseHits ==
    { hits \in [1..8 -> TargetRayHits \cup WallRayHits] :
        \A i \in 1..8 :
            hits[i] \in IF visionRays[i].type = "target" THEN TargetRayHits
                                                         ELSE WallRayHits }

\* The agent as constructed, in front of any such scene.
SenseStart ==
    /\ needsReset = FALSE
    /\ reward = 0
    /\ totalReward = 0
    /\ body = InitialBody
    /\ mesh = InitialMesh
    /\ lastSensoryData = <<>>
    /\ positionHistory = <<>>
    /\ latestBrainOutput = [motor_commands |-> <<>>, network_size |-> <<>>]
    /\ socket = "null"
    /\ lastFrame = <<>>
    /\ scheduled = FALSE
    /\ frames = 0
    /\ pc = "idle"
    /\ lastTick = NoTick
    /\ rayHits \in SenseHits
    /\ RelayStart

\* agent.sense() is called once; the snapshot it returns is recorded.
SenseCall ==
    /\ lastTick.kind = "none"
    /\ lastTick' = [NoTick EXCEPT !.kind = "sense",
                                  !.senses = << sense(mesh, body, rayHits) >>]
    /\ UNCHANGED <<rayHits, relayVars, needsReset, reward, totalReward, body, mesh,
                   lastSensoryData, positionHistory, latestBrainOutput, socket,
                   lastFrame, scheduled, frames, pc>>

SenseSpec == SenseStart /\ [][SenseCall]_vars

-----------------------------------------------------------------------------
(* proxy.js: the relay between the brain (ZeroMQ) and the browsers (WebSocket) *)

\* A frame is a sequence of bytes; a brain message is a sequence of frames.
\* The brain sends "{}" in one frame, or a byte that is no UTF-8 followed by a
\* second frame.
BrainMessages == { << <<123, 125>> >>, << <<255>>, <<49>> >> }

\* What a browser sends: "{}" or a byte that is no UTF-8.
BrowserMessages == { <<123, 125>>, <<255>> }

\* message.toString('utf-8'): the code points of the string; a byte that is
\* no UTF-8 becomes U+FFFD.
toString(message) ==
    [i \in 1..Len(message) |-> IF message[i] < 128 THEN message[i] ELSE 65533]

\* browserWSS.clients.forEach of line 24 without the readyState test.
RECURSIVE forEachClientAny(_, _, _, _)
forEachClientAny(cs, rs, message, failing) ==
    IF cs = <<>> THEN [sends |-> <<>>, threw |-> <<>>]
    ELSE IF Head(cs) = failing THEN [sends |-> <<>>, threw |-> <<failing>>]
    ELSE LET rest == forEachClientAny(Tail(cs), rs, message, failing) IN
         [sends |-> <<[to |-> Head(cs), data |-> toString(message)]>> \o rest.sends,
          threw |-> rest.threw]

\* browserWSS.clients.forEach of lines 24-28: cs is the set in insertion
\* order, rs the readyStates, failing the client whose send throws (0: none).
\* A throw ends the forEach.
RECURSIVE forEachClient(_, _, _, _)
forEachClient(cs, rs, message, failing) ==
    IF cs = <<>> THEN [sends |-> <<>>, threw |-> <<>>]
    ELSE IF rs[Head(cs)] # "OPEN" THEN forEachClient(Tail(cs), rs, message, failing)
    ELSE IF Head(cs) = failing THEN [sends |-> <<>>, threw |-> <<failing>>]
    ELSE LET rest == forEachClient(Tail(cs), rs, message, failing) IN
         [sends |-> <<[to |-> Head(cs), data |-> toString(message)]>> \o rest.sends,
          threw |-> rest.threw]

\* The clients a forEach handed the message to.
Recipients(sends) == { sends[i].to : i \in 1..Len(sends) }

\* The 'message' handler passing the text of the message in place of the message.
onBrowserMessageText(message) == << toString(message) >>

\* The 'message' handler of lines 35-39: what it passes to brainSocket.send.
onBrowserMessage(message) == << message >>

\* cs without c.
Without(cs, c) == SelectSeq(cs, LAMBDA x : x # c)

\* The process is up.
Up == forwarder # "exited"

\* A connection that is handed, on connecting, the messages received so far.
BrowserConnectsReplays ==
    /\ Up
    /\ \E c \in 1..MaxClients :
         /\ readyState[c] = "none"
         /\ clients' = Append(clients, c)
         /\ readyState' = [readyState EXCEPT ![c] = "OPEN"]
         /\ delivered' = [delivered EXCEPT ![c] = [i \in 1..received |-> i]]
    /\ UNCHANGED <<browserVars, rayHits, received, forwarder, lastRelay>>

\* browserWSS 'connection': a browser connects; the handler registers the
\* two listeners and logs.
BrowserConnects ==
    /\ Up
    /\ \E c \in 1..MaxClients :
         /\ readyState[c] = "none"
         /\ clients' = Append(clients, c)
         /\ readyState' = [readyState EXCEPT ![c] = "OPEN"]
    /\ UNCHANGED <<browserVars, rayHits, delivered, received, forwarder, lastRelay>>

\* A browser connection starts its closing handshake; it stays in the set.
BrowserClosing ==
    /\ Up
    /\ \E c \in 1..MaxClients :
         /\ readyState[c] = "OPEN"
         /\ readyState' = [readyState EXCEPT ![c] = "CLOSING"]
    /\ UNCHANGED <<browserVars, rayHits, clients, delivered, received, forwarder, lastRelay>>

\* browserSocket 'close': the connection is gone from the set; the handler logs.
BrowserCloses ==
    /\ Up
    /\ \E c \in 1..MaxClients :
         /\ readyState[c] \in {"OPEN", "CLOSING"}
         /\ readyState' = [readyState EXCEPT ![c] = "CLOSED"]
         /\ clients' = Without(clients, c)
    /\ UNCHANGED <<browserVars, rayHits, delivered, received, forwarder, lastRelay>>

\* One turn of the for await loop: the first frame of a brain message is sent
\* to the clients; failing is the client whose send throws (0: none).  A throw
\* leaves the loop: the promise of forwardBrainToBrowsers() rejects and nothing
\* handles it, which stops the forwarder or ends the process.
forwardBrainToBrowsers(failing, after) ==
    /\ forwarder = "running"
    /\ received < MaxMessages
    /\ \E m \in BrainMessages :
         LET message == m[1]
             done == forEachClient(clients, readyState, message, failing) IN
         /\ received' = received + 1
         /\ delivered' = [c \in 1..MaxClients |->
                            IF c \in Recipients(done.sends)
                            THEN Append(delivered[c], received + 1) ELSE delivered[c]]
         /\ lastRelay' = [NoRelay EXCEPT !.kind = "broadcast", !.n = received + 1,
                                         !.message = <<message>>,
                                         !.sends = done.sends, !.threw = done.threw]
         /\ forwarder' = IF done.threw = <<>> THEN "running" ELSE after
    /\ UNCHANGED <<browserVars, rayHits, clients, readyState>>

\* The brain's message is forwarded and every send returns.
BrainToBrowsers ==
    /\ Up
    /\ forwardBrainToBrowsers(0, "running")

\* The brain's message is forwarded and the send to an open client throws.
BrainToBrowsersThrows ==
    \E c \in 1..MaxClients, after \in {"stopped", "exited"} :
        /\ readyState[c] = "OPEN"
        /\ forwardBrainToBrowsers(c, after)

\* browserSocket 'message': a browser's message goes to the brain.
BrowserToBrain ==
    /\ Up
    /\ \E c \in 1..MaxClients, message \in BrowserMessages :
         /\ readyState[c] = "OPEN"
         /\ lastRelay' = [NoRelay EXCEPT !.kind = "message", !.from = c,
                                         !.message = <<message>>,
                                         !.upstream = onBrowserMessage(message)]
    /\ UNCHANGED <<browserVars, rayHits, clients, readyState, delivered, received, forwarder>>

RelayNext ==
    \/ BrowserConnects
    \/ BrowserClosing
    \/ BrowserCloses
    \/ BrainToBrowsers
    \/ BrainToBrowsersThrows
    \/ BrowserToBrain

RelaySpec == Init /\ [][RelayNext]_vars

-----------------------------------------------------------------------------
(* Properties *)

\* A step that is one invocation of animate(), up to its return or to its
\* entry into the physics step.
AnimateStep == frames' = frames + 1

\* A step that is one run of the collide listener.
CollideStep == pc = "physics" /\ pc' = "physics"

\* The tags the collision contract names, and the reward fixed for each.
KnownTags == {"button_red", "button_blue", "wall"}

FixedReward(id) ==
    CASE id = "button_red" -> 5000
      [] id = "button_blue" -> -1000
      [] id = "wall" -> -2000

\* C1: an invocation of animate() that finds needsReset set zeroes the body's
\* velocity, angular velocity, force and torque, puts the body at the fixed
\* initial pose, clears needsReset, and does nothing else: no sensing, no
\* reward computation, no brainSocket.send, no agent.act, no physics step.
C1_DeadFrame ==
    [][(needsReset /\ AnimateStep) =>
         /\ body'.velocity = Zero3
         /\ body'.angularVelocity = Zero3
         /\ body'.force = Zero3
         /\ body'.torque = Zero3
         /\ body'.position = Vec(0, 3000, 8000)
         /\ body'.quaternion = 0
         /\ needsReset' = FALSE
         /\ lastTick'.senses = <<>>
         /\ lastTick'.continuous = <<>>
         /\ lastTick'.sends = <<>>
         /\ lastTick'.wire = <<>>
         /\ lastTick'.acts = <<>>
         /\ ~lastTick'.stepped
         /\ pc' = "idle"
         /\ reward' = reward
         /\ positionHistory' = positionHistory
         /\ lastSensoryData' = lastSensoryData
         /\ mesh' = mesh]_vars

\* C1 witness: a dead frame has run on a body that a collision left turned,
\* moving and away from the start.
C1_Witness ==
    /\ lastTick.kind = "dead"
    /\ lastTick.rewardBefore = 5000
    /\ mesh.position # Zero3
    /\ mesh.quaternion # 0
    /\ body.position = initialPosition

\* C2: in a tick whose accumulator already holds a collision-assigned value
\* (the tick after a dead frame), the reward passed to brainSocket.send is
\* that value plus the tick's continuous reward.
C2_CollisionRewardForwarded ==
    (lastTick.prev = "dead" /\ lastTick.sends # <<>>) =>
        lastTick.sends[1].reward = lastTick.rewardBefore + lastTick.continuous[1]

\* C3: the collide listener assigns +5.0, -1.0, -2.0 for button_red,
\* button_blue, wall and sets needsReset; for any other body it changes
\* neither agent.reward nor needsReset.
C3_CollideAssigns ==
    [][CollideStep =>
         LET id == lastTick'.last[1] IN
         /\ id = "button_red" => (reward' = 5000 /\ needsReset')
         /\ id = "button_blue" => (reward' = -1000 /\ needsReset')
         /\ id = "wall" => (reward' = -2000 /\ needsReset')
         /\ id \notin KnownTags => (reward' = reward /\ needsReset' = needsReset)]_vars

\* C3 witness: the listener ran for the red button on an accumulator that
\* held a non-zero continuous reward, and left exactly 5.0.
C3_Witness ==
    /\ pc = "physics"
    /\ lastTick.last = <<"button_red">>
    /\ lastTick.continuous # <<>>
    /\ lastTick.continuous[1] # 0
    /\ reward = 5000
    /\ needsReset

\* C4: needsReset starts false; it turns true only in a run of the collide
\* listener for a known tag, and turns false only in the dead-frame branch of
\* animate().
C4_EpisodeState ==
    /\ ~needsReset
    /\ [][/\ (~needsReset /\ needsReset') =>
                (CollideStep /\ lastTick'.last[1] \in KnownTags)
          /\ (needsReset /\ ~needsReset') =>
                (pc = "idle" /\ AnimateStep /\ lastTick'.kind = "dead")]_vars

\* C4 witness: a reset is pending after a faulted tick, with a frame received.
C4_Witness ==
    /\ needsReset
    /\ pc = "idle"
    /\ lastTick.kind = "fault"
    /\ lastFrame # <<>>

\* C5: a known-tag collision that finds a reset already pending leaves
\* needsReset true and agent.reward at its own fixed value; and while a reset
\* is pending nothing but such a collision changes agent.reward, the dead
\* frame included.
C5_LastCollisionWins ==
    [][needsReset =>
         /\ needsReset' \/ (AnimateStep /\ lastTick'.kind = "dead")
         /\ IF CollideStep /\ lastTick'.last[1] \in KnownTags
            THEN needsReset' /\ reward' = FixedReward(lastTick'.last[1])
            ELSE reward' = reward]_vars

\* C5 witness: the blue button was hit while a reset was already pending with
\* another reward, and the accumulator holds -1.0.
C5_Witness ==
    /\ pc = "physics"
    /\ lastTick.contacts = 2
    /\ lastTick.pendingBefore
    /\ lastTick.last = <<"button_blue">>
    /\ reward = -1000
    /\ needsReset

\* C6: after every invocation of animate(), a faulted one included, another
\* invocation is pending and eventually runs (up to the bound on frames), and
\* the step in which the exception is caught leaves needsReset as it finds it.
C6_LoopNeverStops ==
    /\ \A n \in 1..(MaxFrames - 1) : (frames = n) ~> (frames = n + 1)
    /\ [](frames > 0 => scheduled)
    /\ [][(lastTick'.kind = "fault" /\ (AnimateStep \/ (pc = "physics" /\ pc' = "idle")))
            => needsReset' = needsReset]_vars

\* C6 witness: an invocation has run to its end right after a faulted one.
C6_Witness ==
    /\ lastTick.prev = "fault"
    /\ lastTick.kind = "tick"
    /\ pc = "idle"

\* C7 as stated: after a faulted tick needsReset and agent.reward have the
\* values they had when the tick began.
C7_FaultRestoresStart ==
    (pc = "idle" /\ lastTick.kind = "fault") =>
        (needsReset = lastTick.needsResetBefore /\ reward = lastTick.rewardBefore)

\* C7 amended: nothing is rolled back.  After a faulted tick agent.reward is 0
\* when sense or calculateReward threw, the tick's continuous reward when a
\* later statement threw, or the fixed reward of a collision that the physics
\* step dispatched before the throw; needsReset is as at the start of the tick
\* unless such a collision set it.
C7_FaultKeepsCompletedWrites ==
    (pc = "idle" /\ lastTick.kind = "fault") =>
        /\ lastTick.stage \in {"sense", "reward"} =>
              (reward = 0 /\ needsReset = lastTick.needsResetBefore)
        /\ lastTick.stage \in {"send", "act"} =>
              (reward = lastTick.continuous[1] /\ needsReset = lastTick.needsResetBefore)
        /\ lastTick.stage \in {"physics", "render"} =>
              \/ reward = lastTick.continuous[1] /\ needsReset = lastTick.needsResetBefore
              \/ needsReset /\ reward \in {5000, -1000, -2000}

\* C7 witness: sense threw in a tick that began with a non-zero accumulator.
C7_Witness ==
    /\ pc = "idle"
    /\ lastTick.kind = "fault"
    /\ lastTick.stage = "sense"
    /\ lastTick.rewardBefore # 0
    /\ reward = 0

\* C8: a payload passed to BrainSocket.send is handed to the WebSocket exactly
\* when the socket is OPEN; otherwise it is dropped: nothing is handed over
\* outside the invocation of animate() that made the call (no buffer, no
\* retry), the tick goes on to agent.act (no exception), and
\* latestBrainOutput is not changed.
C8_SendOnlyWhenOpen ==
    /\ [](lastTick.sends # <<>> =>
            IF lastTick.readyState = "OPEN"
            THEN /\ Len(lastTick.wire) = 1
                 /\ lastTick.wire[1].reward = lastTick.sends[1].reward
                 /\ lastTick.wire[1].senses.position = lastTick.sends[1].senses.position
            ELSE lastTick.wire = <<>>)
    /\ [][lastTick'.wire # lastTick.wire => AnimateStep]_vars
    /\ [][(AnimateStep /\ lastTick'.sends # <<>>) =>
            (lastTick'.acts # <<>> \/ lastTick'.stage = "act")]_vars
    /\ [][AnimateStep => latestBrainOutput' = latestBrainOutput]_vars

\* C8 witness: a payload was dropped on a closed socket that had delivered
\* motor commands before.
C8_Witness ==
    /\ lastTick.sends # <<>>
    /\ lastTick.readyState = "CLOSED"
    /\ lastTick.wire = <<>>
    /\ latestBrainOutput.motor_commands # <<>>

\* The frames that are action records: they parse and carry the two
\* actuation fields.
ActionFrames == {RawForward, RawTurn}

\* C9: a frame that does not parse, or that parses but is no action record,
\* leaves latestBrainOutput at its prior value.
C9_MalformedDiscarded ==
    [][(lastFrame' # <<>> /\ lastFrame'[1] \notin ActionFrames)
         => latestBrainOutput' = latestBrainOutput]_vars

\* The actuation an action frame carries.
ActuationOf(raw) ==
    IF raw = RawForward THEN [left |-> 1000, right |-> 1000]
    ELSE [left |-> 1000, right |-> 0]

\* C10: the command passed to agent.act is the actuation of the action frame
\* received last, or {left: 0, right: 0} when no frame has arrived; the loop
\* only reads the slot, so the same command is applied again until a new
\* frame arrives.
C10_LastWriterWins ==
    /\ [][(AnimateStep /\ lastTick'.acts # <<>>) =>
            /\ lastFrame = <<>> => lastTick'.acts[1] = [left |-> 0, right |-> 0]
            /\ (lastFrame # <<>> /\ lastFrame[1] \in ActionFrames) =>
                  lastTick'.acts[1] = ActuationOf(lastFrame[1])]_vars
    /\ [][AnimateStep => (latestBrainOutput' = latestBrainOutput /\ lastFrame' = lastFrame)]_vars

\* C10 witness: a tick that followed a completed tick applied the turn command
\* of the frame received last.
C10_Witness ==
    /\ lastTick.prev = "tick"
    /\ lastTick.acts = <<[left |-> 1000, right |-> 0]>>
    /\ lastFrame = <<RawTurn>>
    /\ body.torque = Vec(0, 50000, 0)

\* C11: a tick that runs with the socket closed (nothing reopens it) passes the
\* neutral command {left: 0, right: 0} to agent.act, also when motor commands
\* were received before the socket closed.
C11_NeutralWhenUnavailable ==
    (lastTick.readyState = "CLOSED" /\ lastTick.acts # <<>>) =>
        lastTick.acts[1] = NeutralCommand

\* C12: once a tick has passed its send and before any collision of its
\* physics step, agent.reward is 0: the drain follows the send.
C12_DrainedAfterSend ==
    (pc = "physics" /\ lastTick.contacts = 0 /\ lastTick.sends # <<>>) =>
        reward = 0

\* C13: a tick that reaches brainSocket.send with the socket OPEN hands the
\* WebSocket exactly one frame, the serialization of the snapshot sense()
\* returned in that tick and of agent.reward (a number) as it stands at the
\* send; every tick that is not dead and does not throw before the send makes
\* that one call; a dead frame hands over nothing.
C13_OneMessagePerTick ==
    /\ [][(AnimateStep /\ ~needsReset /\ lastTick'.stage \notin {"sense", "reward", "send"}) =>
            /\ Len(lastTick'.sends) = 1
            /\ lastTick'.sends[1].senses = sense(mesh, body, Raycast(mesh))
            /\ lastTick'.sends[1].reward = reward'
            /\ reward' \in Int
            /\ socket = "OPEN" =>
                  lastTick'.wire = <<JSONstringify(lastTick'.sends[1])>>]_vars
    /\ [][(AnimateStep /\ needsReset) => lastTick'.wire = <<>>]_vars

\* C13 witness: with the socket open, a tick sent one frame that carries the
\* red button seen at 2.75 on the front channel and a non-zero reward.
C13_Witness ==
    /\ lastTick.readyState = "OPEN"
    /\ Len(lastTick.wire) = 1
    /\ lastTick.wire[1].senses.sees = "red"
    /\ lastTick.wire[1].senses.distance = <<2750>>
    /\ lastTick.wire[1].reward # 0

\* A step that is one call of calculateReward on its own.
CalledStep == frames' = frames + 1 /\ lastTick'.kind = "call"

\* What a snapshot shows: red or blue on some target channel, a wall within
\* 1.0, planar speed above 0.1, angular speed above 0.2.
SeesRed(sd) == sd.sees = "red" \/ sd.sees_left = "red" \/ sd.sees_right = "red"

SeesBlue(sd) == sd.sees = "blue" \/ sd.sees_left = "blue" \/ sd.sees_right = "blue"

WallNear(sd) == sd.sees_wall /\ sd.wall_distance < 1000

Moving(sd) == sd.velocity.x * sd.velocity.x + sd.velocity.z * sd.velocity.z > 100 * 100

Turning(sd) == sd.angular_velocity > 200 \/ sd.angular_velocity < -200

\* Two window entries less than 0.5 apart.
Near(a, b) == (b.x - a.x) * (b.x - a.x) + (b.z - a.z) * (b.z - a.z) < 500 * 500

\* C14: when the same position is fed on every call from an empty window, the
\* 100th call takes the -0.01 stagnation term (a still snapshot then gives
\* -0.012).
C14_PenaltyOnHundredthCall ==
    (/\ lastTick.kind = "call"
     /\ frames = STAGNATION_FRAMES
     /\ \A i \in 1..Len(positionHistory) : positionHistory[i] = positionHistory[1]) =>
        lastTick.continuous[1] = -12

\* C15 as stated: a call with nothing seen and zero velocities returns -0.002
\* whatever calls came before it.
C15_StillIsLivingCost ==
    lastTick.kind = "call" => lastTick.continuous[1] = -2

\* C15 amended: such a call returns -0.012 when the window already held 100
\* entries and the oldest and newest entries it keeps are less than 0.5 apart,
\* and -0.002 otherwise.
C15_StillIsLivingCostOrStagnant ==
    [][CalledStep =>
         LET w == positionHistory' IN
         lastTick'.continuous[1] =
             IF Len(positionHistory) = STAGNATION_FRAMES /\ Near(w[1], w[Len(w)])
             THEN -12 ELSE -2]_vars

\* C15 witness: a still call returned -0.012 on a window whose ends differ.
C15_Witness ==
    /\ lastTick.kind = "call"
    /\ lastTick.continuous = <<-12>>
    /\ Len(positionHistory) = STAGNATION_FRAMES
    /\ positionHistory[1] # positionHistory[Len(positionHistory)]

\* C16: every call returns the living cost: a call with nothing seen, no wall
\* near and the agent at rest returns -0.002, the first call (no previous
\* snapshot) included.
C16_LivingCostAlways ==
    [][(/\ CalledStep
        /\ ~SeesRed(lastTick'.senses[1]) /\ ~SeesBlue(lastTick'.senses[1])
        /\ ~WallNear(lastTick'.senses[1])
        /\ ~Moving(lastTick'.senses[1]) /\ ~Turning(lastTick'.senses[1])) =>
            lastTick'.continuous[1] = -2]_vars

\* C17 as stated: blue on any target channel and no wall within 1.0 gives
\* -0.102 whatever the other channels show.
C17_BlueAnyChannel ==
    [][(/\ CalledStep
        /\ SeesBlue(lastTick'.senses[1])
        /\ ~WallNear(lastTick'.senses[1])) =>
            lastTick'.continuous[1] = -102]_vars

\* C17 amended: with a previous snapshot, blue on some target channel, red on
\* none and no wall within 1.0 give -0.102, whatever the velocities.
C17_BlueWithoutRed ==
    [][(/\ CalledStep
        /\ lastSensoryData # <<>>
        /\ SeesBlue(lastTick'.senses[1])
        /\ ~SeesRed(lastTick'.senses[1])
        /\ ~WallNear(lastTick'.senses[1])) =>
            lastTick'.continuous[1] = -102]_vars

\* C17 witness: blue on the left channel only, the agent moving and turning,
\* and the call returned -0.102.
C17_Witness ==
    /\ lastTick.kind = "call"
    /\ lastTick.continuous = <<-102>>
    /\ lastTick.senses[1].sees = "null"
    /\ lastTick.senses[1].sees_left = "blue"
    /\ lastTick.senses[1].angular_velocity = -500
    /\ lastTick.senses[1].velocity.z = -300

\* The distance C18 selects: the front channel's if finite, else the left
\* channel's if finite, else the right channel's.
Selected(sd) ==
    IF sd.distance < Infinity THEN sd.distance
    ELSE IF sd.distance_left < Infinity THEN sd.distance_left
    ELSE sd.distance_right

\* C18: with a previous snapshot and red on some target channel, the call
\* returns -0.002 + 0.01, plus 0.2 exactly when the selected distance of the
\* current snapshot is smaller than that of the previous one, less 0.5 when a
\* wall is within 1.0.
C18_RedBonus ==
    [][(/\ CalledStep
        /\ lastSensoryData # <<>>
        /\ SeesRed(lastTick'.senses[1])) =>
            lastTick'.continuous[1] =
                -2 + 10
                + (IF Selected(lastTick'.senses[1]) < Selected(lastSensoryData[1])
                   THEN 200 ELSE 0)
                + (IF WallNear(lastTick'.senses[1]) THEN -500 ELSE 0)]_vars

\* C18 witness: front red at 4.0 after front red at 5.0 returned 0.208.
C18_Witness ==
    /\ lastTick.kind = "call"
    /\ lastTick.continuous = <<208>>
    /\ lastTick.senses[1].sees = "red"
    /\ lastTick.senses[1].distance = 4000

\* C19: with a previous snapshot and no target on any channel, the call adds
\* +0.1 if the angular speed exceeds 0.2, otherwise -0.2 if the planar speed
\* exceeds 0.1, otherwise nothing; never both.
C19_ExploreOrWander ==
    [][(/\ CalledStep
        /\ lastSensoryData # <<>>
        /\ ~SeesRed(lastTick'.senses[1])
        /\ ~SeesBlue(lastTick'.senses[1])) =>
            lastTick'.continuous[1] =
                -2
                + (IF Turning(lastTick'.senses[1]) THEN 100
                   ELSE IF Moving(lastTick'.senses[1]) THEN -200 ELSE 0)
                + (IF WallNear(lastTick'.senses[1]) THEN -500 ELSE 0)]_vars

\* C19 witness: nothing seen, the agent moving at 0.3 and turning at -0.5, and
\* the call returned 0.098.
C19_Witness ==
    /\ lastTick.kind = "call"
    /\ lastTick.continuous = <<98>>
    /\ lastTick.senses[1].angular_velocity = -500
    /\ lastTick.senses[1].velocity.z = -300

\* C20: with a previous snapshot, the call returns what it returns for the
\* same snapshot with no wall seen, less 0.5 exactly when the wall channel
\* reports seen at a distance strictly below 1.0, in the red, blue and
\* no-target branches alike.
C20_WallTermAdditive ==
    [][(CalledStep /\ lastSensoryData # <<>>) =>
         LET sd == lastTick'.senses[1]
             clear == [sd EXCEPT !.sees_wall = FALSE, !.wall_distance = Infinity]
         IN  lastTick'.continuous[1] =
                 calculateReward(clear, lastSensoryData, positionHistory).reward
                 + (IF sd.sees_wall /\ sd.wall_distance < 1000 THEN -500 ELSE 0)]_vars

\* C20 witness: a wall at 0.5, no target, the agent at rest, and the call
\* returned -0.502.
C20_Witness ==
    /\ lastTick.kind = "call"
    /\ lastTick.continuous = <<-502>>
    /\ lastTick.senses[1].sees_wall
    /\ lastTick.senses[1].wall_distance = 500
    /\ lastTick.senses[1].velocity.z = 0

\* A step that is one turn of the forwarder's loop, and one that is a run of
\* the browser 'message' handler.
BroadcastStep == received' = received + 1

RelayedStep == lastRelay'.kind = "message" /\ lastRelay' # lastRelay

\* C21: a brain message whose sends all return is passed to client.send once
\* for every connection that is OPEN at that moment, in the set's order, and
\* for no other; with no connection nothing is sent and nothing is raised; and
\* connects and disconnects never stop the forwarder.
C21_BroadcastToOpen ==
    /\ [][(BroadcastStep /\ lastRelay'.threw = <<>>) =>
            /\ Recipients(lastRelay'.sends) = { c \in 1..MaxClients : readyState[c] = "OPEN" }
            /\ Len(lastRelay'.sends) = Cardinality(Recipients(lastRelay'.sends))
            /\ \A i \in 1..Len(lastRelay'.sends) :
                 lastRelay'.sends[i].data = toString(lastRelay'.message[1])
            /\ clients = <<>> => lastRelay'.sends = <<>>
            /\ forwarder' = "running"]_vars
    /\ [][forwarder' # forwarder => (BroadcastStep /\ lastRelay'.threw # <<>>)]_vars

\* C21 witness: a second brain message went to the one connection that was
\* open and not to the one that was closing.
C21_Witness ==
    /\ lastRelay.kind = "broadcast"
    /\ lastRelay.n = 2
    /\ Len(clients) = 2
    /\ Len(lastRelay.sends) = 1
    /\ \E c \in 1..MaxClients : readyState[c] = "CLOSING"
    /\ forwarder = "running"

C23_FailureIsolated ==
    [][(BroadcastStep /\ lastRelay'.threw # <<>>) =>
         /\ \A c \in 1..MaxClients :
              (readyState[c] = "OPEN" /\ c # lastRelay'.threw[1]) =>
                  c \in Recipients(lastRelay'.sends)
         /\ forwarder' = "running"]_vars

\* C30: a connection is passed only the message being forwarded at that
\* moment, while it is OPEN: what it has been passed is in the order of
\* arrival from the brain, nothing twice, and never a message that arrived
\* before it connected or while it was not open.
C30_InOrderNoReplay ==
    /\ [][\A c \in 1..MaxClients :
            delivered'[c] # delivered[c] =>
                /\ readyState[c] = "OPEN"
                /\ BroadcastStep
                /\ delivered'[c] = Append(delivered[c], received')]_vars
    /\ [](\A c \in 1..MaxClients : \A i, j \in 1..Len(delivered[c]) :
            i < j => delivered[c][i] < delivered[c][j])

\* C30 witness: one connection was passed messages 1 and 2 in that order, the
\* other, which connected after message 1, only message 2.
C30_Witness ==
    \E c, d \in 1..MaxClients :
        /\ delivered[c] = <<1, 2>>
        /\ delivered[d] = <<2>>

\* C24: in a non-dead tick the physics engine is advanced first: while the
\* physics step runs (and its collide listeners fire), the tick has not yet
\* sensed, computed its reward, sent its payload or applied an action.
C24_PhysicsFirst ==
    pc = "physics" =>
        /\ lastTick.senses = <<>>
        /\ lastTick.continuous = <<>>
        /\ lastTick.sends = <<>>
        /\ lastTick.acts = <<>>

\* The nearest of a ray's hits.
Nearest(intersects) ==
    CHOOSE h \in { intersects[k] : k \in 1..Len(intersects) } :
        \A k \in 1..Len(intersects) : h.distance <= intersects[k].distance

\* The wall rays that hit something.
WallRaysHit == { i \in 4..8 : rayHits[i] # <<>> }

\* C25: sense() fills each target channel from its own ray alone: the color
\* and distance of that ray's nearest hit, or null and Infinity when it hits
\* nothing; sees_wall holds exactly when some wall ray hits, and wall_distance
\* is the least nearest-hit distance over the wall rays that hit, or Infinity.
C25_SensePerChannel ==
    lastTick.kind = "sense" =>
        LET s == lastTick.senses[1] IN
        /\ s.sees = IF rayHits[1] = <<>> THEN "null" ELSE Nearest(rayHits[1]).color
        /\ s.distance = IF rayHits[1] = <<>> THEN Infinity ELSE Nearest(rayHits[1]).distance
        /\ s.sees_left = IF rayHits[2] = <<>> THEN "null" ELSE Nearest(rayHits[2]).color
        /\ s.distance_left =
               IF rayHits[2] = <<>> THEN Infinity ELSE Nearest(rayHits[2]).distance
        /\ s.sees_right = IF rayHits[3] = <<>> THEN "null" ELSE Nearest(rayHits[3]).color
        /\ s.distance_right =
               IF rayHits[3] = <<>> THEN Infinity ELSE Nearest(rayHits[3]).distance
        /\ s.sees_wall = (WallRaysHit # {})
        /\ s.wall_distance =
               IF WallRaysHit = {} THEN Infinity
               ELSE CHOOSE d \in { Nearest(rayHits[i]).distance : i \in WallRaysHit } :
                        \A i \in WallRaysHit : d <= Nearest(rayHits[i]).distance

\* C25 witness: the front ray meets blue with red behind it, the left ray
\* nothing, the right ray red; the first wall ray meets a near wall and a later
\* one a farther wall, and the snapshot carries the near distance.
C25_Witness ==
    /\ lastTick.kind = "sense"
    /\ Len(rayHits[1]) = 2
    /\ rayHits[2] = <<>>
    /\ lastTick.senses[1].sees = "blue"
    /\ lastTick.senses[1].sees_left = "null"
    /\ lastTick.senses[1].distance_left = Infinity
    /\ lastTick.senses[1].sees_right = "red"
    /\ rayHits[4] # <<>>
    /\ rayHits[8] # <<>>
    /\ rayHits[4][1].distance < rayHits[8][1].distance
    /\ lastTick.senses[1].wall_distance = rayHits[4][1].distance

\* C26: positionHistory is a sliding window of capacity 100: it never holds
\* more than 100 positions, and a call of calculateReward with a previous
\* snapshot appends the new position, dropping exactly the oldest one when the
\* window already holds 100; everything else stays, in order.
C26_SlidingWindow ==
    /\ [](Len(positionHistory) <= STAGNATION_FRAMES)
    /\ [][AnimateStep =>
            LET pos == [x |-> lastTick'.senses[1].position.x,
                        z |-> lastTick'.senses[1].position.z]
            IN  positionHistory' =
                    IF Len(positionHistory) < STAGNATION_FRAMES
                    THEN Append(positionHistory, pos)
                    ELSE Append(Tail(positionHistory), pos)]_vars

\* C26 witness: after more than 100 calls the window holds 100 positions, the
\* oldest taken at a different place than the newest.
C26_Witness ==
    /\ lastTick.kind = "call"
    /\ frames > STAGNATION_FRAMES + 1
    /\ Len(positionHistory) = STAGNATION_FRAMES
    /\ positionHistory[1] # positionHistory[STAGNATION_FRAMES]

\* C27: whenever sense() has run in a tick, the position and heading in its
\* snapshot are those the physics body had when the tick began; in the first
\* tick after a dead frame the snapshot's position is the fixed initial
\* position.
C27_SenseFromBodyPose ==
    [][(AnimateStep /\ lastTick'.senses # <<>>) =>
         /\ lastTick'.senses[1].position = [x |-> body.position.x, z |-> body.position.z]
         /\ lastTick'.senses[1].orientation = body.quaternion
         /\ lastTick.kind = "dead" =>
                lastTick'.senses[1].position =
                    [x |-> initialPosition.x, z |-> initialPosition.z]]_vars

\* A step in which the physics step of a tick ends, by return or by throw.
StepEnds == pc = "physics" /\ pc' = "idle"

\* C28 as stated: a tick in whose physics step a collide listener ran does not
\* fault; needsReset is set nowhere else; an invocation of animate() that
\* finds needsReset set is a dead frame, and the one after a dead frame is not.
C28_CollideOnlyInCleanTick ==
    /\ [][(StepEnds /\ lastTick.contacts > 0) => lastTick'.kind = "tick"]_vars
    /\ [][(needsReset' /\ ~needsReset) => CollideStep]_vars
    /\ [][(AnimateStep /\ needsReset) => lastTick'.kind = "dead"]_vars
    /\ [][(AnimateStep /\ lastTick.kind = "dead") => lastTick'.kind # "dead"]_vars

\* C28: a collide listener runs only in the physics step of a non-dead tick
\* that has not faulted so far, and needsReset is set nowhere else and cleared
\* only by a dead frame; a collision with a known tag sets it, so the next
\* invocation of animate() is a dead frame, whether or not the tick faults
\* after the collision; the invocation after a dead frame is never a dead frame.
C28_CollisionThenOneDeadFrame ==
    /\ [][CollideStep => (lastTick.kind = "running" /\ lastTick.stepped)]_vars
    /\ [][(needsReset' /\ ~needsReset) => CollideStep]_vars
    /\ [][(needsReset /\ ~needsReset') => (AnimateStep /\ lastTick'.kind = "dead")]_vars
    /\ [][(CollideStep /\ lastTick'.last[1] \in KnownTags) => needsReset']_vars
    /\ [][(AnimateStep /\ needsReset) => lastTick'.kind = "dead"]_vars
    /\ [][(AnimateStep /\ lastTick.kind = "dead") =>
            (lastTick'.kind # "dead" /\ ~needsReset)]_vars

\* C28 witness: a dead frame has followed a tick that faulted after a
\* collision in its physics step.
C28_Witness ==
    /\ lastTick.kind = "dead"
    /\ lastTick.prev = "fault"
    /\ lastTick.needsResetBefore
    /\ ~needsReset

\* C29: a dead frame leaves agent.reward, agent.totalReward, lastSensoryData,
\* positionHistory and latestBrainOutput as they were; the tick right after a
\* dead frame computes its continuous reward from the snapshot and the window
\* kept from before the reset, and applies the command received before it.
C29_ResetKeepsEpisodeState ==
    /\ [][(AnimateStep /\ needsReset) =>
            /\ reward' = reward
            /\ totalReward' = totalReward
            /\ lastSensoryData' = lastSensoryData
            /\ positionHistory' = positionHistory
            /\ latestBrainOutput' = latestBrainOutput
            /\ mesh' = mesh
            /\ socket' = socket]_vars
    /\ [][(AnimateStep /\ lastTick.kind = "dead" /\ lastTick'.continuous # <<>>) =>
            LET cr == calculateReward(lastTick'.senses[1], lastSensoryData,
                                      positionHistory)
            IN  /\ lastTick'.continuous[1] = cr.reward
                /\ positionHistory' = cr.history]_vars
    /\ [][(AnimateStep /\ lastTick.kind = "dead" /\ lastTick'.acts # <<>>) =>
            lastTick'.acts[1] = CommandOf(latestBrainOutput)]_vars

\* C29 witness: the tick after a dead frame has run with a snapshot kept from
\* before the reset: its continuous reward is not the 0 of a first call, and
\* the command it applied is one the brain had sent.
C29_Witness ==
    /\ lastTick.prev = "dead"
    /\ lastTick.kind = "tick"
    /\ lastTick.continuous # <<>>
    /\ lastTick.continuous[1] # 0
    /\ Len(positionHistory) > 0
    /\ lastTick.acts[1] # NeutralCommand

=============================================================================
